---- MODULE Spec2Model ----
(***************************************************************************)
(* Release-evidence gate of scripts/check_version_release_evidence.py.     *)
(* One invocation of main(): the parsed arguments are fixed at start, the  *)
(* answers of git, of the process environment and of the GitHub API are    *)
(* chosen when main() asks for them, and pc is main()'s position.          *)
(***************************************************************************)
EXTENDS Integers, Sequences, FiniteSets, TLC

\* ---------------------------------------------------------------- bounds
\* Largest --run-discovery-timeout-seconds / --run-completion-timeout-seconds
MaxTimeout == 3
\* Largest --poll-interval-seconds
MaxPoll == 2
\* Longest time one round of a polling loop takes beyond the interval it sleeps:
\* the latency of its API request and what time.sleep() oversleeps
MaxDelay == 1
\* Longest workflow_runs page
MaxRuns == 2

\* ------------------------------------------------------------- constants
NULL_SHA == "0000000000000000000000000000000000000000"
None == "None"

EventNames == {"push", "pull_request"}
Refs == {"refs/heads/main", "refs/heads/master", "refs/heads/dev"}
BeforeArgs == {"", NULL_SHA, "c1"}
AfterArg == "c2"
Versions == {"1.0", "1.1"}
\* Cargo.toml contents: a version, or text from which no version can be read
Manifests == Versions \cup {"<no version>"}
\* Cargo.toml of the checked-out working tree
WorkingTreeManifests == {"1.1", "<no version>"}
TimeoutArgs == -1 .. MaxTimeout
PollArgs == -1 .. MaxPoll

\* commit graph of the checkout: c1 <- c2 (the after commit), cx on unrelated history
Commits == {"c1", "c2", "cx"}
Parent == [c \in Commits |-> IF c = "c2" THEN "c1" ELSE None]

HttpStatuses == {200, 204, 404}
\* what github_api_get gives back: a status, or 0 when urlopen raises URLError
ApiResults == HttpStatuses \cup {0}
EnvValues == {"", "tok"}
RunIds == {None, "r1"}
\* (status, conclusion) pairs of a workflow run as the API reports them
RunStates == {<<"queued", None>>, <<"in_progress", None>>,
              <<"completed", "success">>, <<"completed", "failure">>,
              <<"completed", None>>}
\* the draft flag of a release as JSON prints it
Flags == {"true", "false"}
Timestamps == {"2024-01-01T00:00:00Z", None}

VARIABLES
    pc,                  \* position in main()
    \* parsed arguments
    event_name, ref, before, poll_interval_seconds,
    run_discovery_timeout_seconds, run_completion_timeout_seconds,
    now,                 \* time.monotonic()
    \* locals of main(); a local not yet bound holds Unset / Unbound
    current_version, before_version, expected_tag,
    tag_commit_rc, tag_commit, ancestor_rc,
    token, poll_interval, run_discovery_timeout, run_completion_timeout,
    discovery_deadline,
    runs_status, run_for_tag,
    run_id, run_status, run_conclusion, run_status_code, completion_deadline,
    release_status, release_payload,
    \* what the process leaves behind
    stdout, stderr, exit_code, verdict,
    \* history of the invocation
    found,               \* the run as run discovery selected it
    first_listed,        \* the matching run of least index in the page that held it
    later_success,       \* while the selected run is inspected: the page in hand
                         \* holds a later matching run, completed/success
    list_queries, run_fetches, release_queries, sleeps, git_calls,
    fetched_at           \* clock when the latest single-run re-fetch returned

args == <<event_name, ref, before, poll_interval_seconds,
          run_discovery_timeout_seconds, run_completion_timeout_seconds>>
bump_vars == <<current_version, before_version, expected_tag>>
tag_vars == <<tag_commit_rc, tag_commit, ancestor_rc>>
cfg_vars == <<token, poll_interval, run_discovery_timeout, run_completion_timeout,
              discovery_deadline>>
disc_vars == <<runs_status, run_for_tag, found, first_listed, later_success>>
run_vars == <<run_id, run_status, run_conclusion, run_status_code,
              completion_deadline, fetched_at>>
rel_vars == <<release_status, release_payload>>
out_vars == <<stdout, stderr, exit_code, verdict>>
api_counts == <<list_queries, run_fetches, release_queries>>
vars == <<pc, args, now, bump_vars, tag_vars, cfg_vars, disc_vars, run_vars,
          rel_vars, out_vars, api_counts, sleeps, git_calls>>

Unset == "unset"
Unbound == 0 - 1

\* a workflow run object of the API; NoRun is Python's None for run_for_tag
Run(hb, id, st, co) == [head_branch |-> hb, id |-> id, status |-> st, conclusion |-> co]
NoRun == Run(None, None, None, None)
Release(d, p) == [draft |-> d, published_at |-> p]
NoRelease == Release(Unset, Unset)

\* the ::error:: line fail() writes, with the values formatted into it
Msg(text, code, secs, st, co) ==
    [text |-> text, code |-> code, secs |-> secs, status |-> st, conclusion |-> co]
NoMsg == Msg("", 0, 0, "", "")
Traceback == Msg("Traceback (most recent call last)", 0, 0, "", "")

Max(a, b) == IF a >= b THEN a ELSE b

\* counters stop here; the loops of main() end well before (see CountersInRange)
QueryCap == MaxTimeout + 3

\* ------------------------------------------------------- pure helpers
Raise == "raise"

\* line 122: the gate applies only to a push to main/master
NotApplicable_And(ev, r) == ev # "push" /\ r \notin {"refs/heads/main", "refs/heads/master"}
NotApplicable(ev, r) == ev # "push" \/ r \notin {"refs/heads/main", "refs/heads/master"}

\* lines 35-40: the version of a manifest, or an exception
workspace_version_from_toml(content) ==
    IF content \in Versions THEN content ELSE Raise

\* lines 43-47: None when `git show` fails, else the parsed version (may raise)
workspace_version_at_rev(rc, content) ==
    IF rc # 0 THEN None ELSE workspace_version_from_toml(content)

\* line 128: the before revision is read only when given and not all-zero
BeforeGiven_EmptyOnly(b) == b # ""
BeforeGiven(b) == b # "" /\ b # NULL_SHA

\* line 131
VersionUnchanged_Inverted(bv, cv) == bv # cv
VersionUnchanged_Never(bv, cv) == FALSE
VersionUnchanged(bv, cv) == bv = cv

\* line 138
ExpectedTag(v) == "v" \o v

\* line 139: truthiness of before_version
PreviousKnown(bv) == bv # None /\ bv # ""

\* line 153: rev-parse could not resolve the tag
TagMissing_OnlyExitOne(rc) == rc = 1
TagMissing(rc) == rc # 0

\* line 164: the tag commit is not in the history of the pushed commit
Unreachable_OnlyGitErrors(rc) == rc > 1
Unreachable_Never(rc) == FALSE
Unreachable(rc) == rc # 0

\* lines 160-163: git merge-base --is-ancestor c d
RECURSIVE IsAncestor(_, _)
IsAncestor(c, d) ==
    IF c = d THEN TRUE
    ELSE IF Parent[d] = None THEN FALSE
    ELSE IsAncestor(c, Parent[d])

MergeBaseRc(c, d) == IF IsAncestor(c, d) THEN 0 ELSE 1

\* line 170
TokenFrom(github_token, gh_token) ==
    IF github_token # "" THEN github_token
    ELSE IF gh_token # "" THEN gh_token
    ELSE ""

\* lines 174-176
ClampInterval_Unclamped(n) == n
ClampInterval_NonNegative(n) == Max(n, 0)
ClampInterval(n) == Max(n, 1)
ClampTimeout(n) == Max(n, 0)

\* lines 193-200: next(run for run in workflow_runs if head_branch == tag, None)
FirstMatch_Last(runs, tag) ==
    LET M == {i \in 1..Len(runs) : runs[i].head_branch = tag} IN
    IF M = {} THEN NoRun ELSE runs[CHOOSE i \in M : \A j \in M : j <= i]

RECURSIVE FirstMatch(_, _)
FirstMatch(runs, tag) ==
    IF runs = <<>> THEN NoRun
    ELSE IF Head(runs).head_branch = tag THEN Head(runs)
    ELSE FirstMatch(Tail(runs), tag)

\* lines 187, 228, 256: any status but 200 is an API error
NotOk_ServerErrorsOnly(status) == status >= 500
NotOk(status) == status # 200

\* line 203
DiscoveryExpired_Strict(t, deadline) == t > deadline
DiscoveryExpired(t, deadline) == t >= deadline

\* lines 214, 237, 239
Completed_Conclusion(status) == status = "success"
Completed_Never(status) == FALSE
Completed(status) == status = "completed"

\* line 221
CompletionPending_Inclusive(t, deadline) == t <= deadline
CompletionPending(t, deadline) == t < deadline

\* line 245
Successful_StatusWord(conclusion) == conclusion = "completed"
Successful_NotFailure(conclusion) == conclusion # "failure"
Successful(conclusion) == conclusion = "success"

\* line 261
NotPublished_DraftOnly(payload) == payload.draft = "true"
NotPublished_Both(payload) == payload.draft = "true" /\ payload.published_at = None
NotPublished(payload) == payload.draft = "true" \/ payload.published_at = None

\* -------------------------------------------------------------- outcomes
\* lines 85-87: fail() prints the error line; main returns 1
Fail_NotTerminal(m) ==
    /\ stderr' = m
    /\ exit_code' = 1
    /\ verdict' = "failed"
    /\ pc' = pc

Fail(m) ==
    /\ stderr' = m
    /\ exit_code' = 1
    /\ verdict' = "failed"
    /\ pc' = "done"

\* an exception main() does not catch: traceback, exit status 1
Crash ==
    /\ stderr' = Traceback
    /\ exit_code' = 1
    /\ verdict' = "crashed"
    /\ pc' = "done"

\* ----------------------------------------------------------------- Init
\* The command lines checked.  The event, ref and before arguments are read by
\* lines 122-148 only and the three tunables by lines 174-243 only, so every
\* context is run with one setting of the tunables and every setting of the
\* tunables with one context that reaches the polling stages.
Contexts == EventNames \X Refs \X BeforeArgs
Tunables == PollArgs \X TimeoutArgs \X TimeoutArgs
Invocations ==
    (Contexts \X {<<1, 1, 1>>}) \cup ({<<"push", "refs/heads/main", "">>} \X Tunables)

Init ==
    /\ pc = "start"
    /\ \E inv \in Invocations :
        /\ event_name = inv[1][1]
        /\ ref = inv[1][2]
        /\ before = inv[1][3]
        /\ poll_interval_seconds = inv[2][1]
        /\ run_discovery_timeout_seconds = inv[2][2]
        /\ run_completion_timeout_seconds = inv[2][3]
    /\ now = 0
    /\ current_version = Unset /\ before_version = Unset /\ expected_tag = Unset
    /\ tag_commit_rc = Unbound /\ tag_commit = Unset /\ ancestor_rc = Unbound
    /\ token = Unset /\ poll_interval = Unbound
    /\ run_discovery_timeout = Unbound /\ run_completion_timeout = Unbound
    /\ discovery_deadline = Unbound
    /\ runs_status = Unbound /\ run_for_tag = NoRun
    /\ found = NoRun
    /\ first_listed = NoRun
    /\ later_success = FALSE
    /\ run_id = Unset /\ run_status = Unset /\ run_conclusion = Unset
    /\ run_status_code = Unbound /\ completion_deadline = Unbound
    /\ fetched_at = Unbound
    /\ release_status = Unbound /\ release_payload = NoRelease
    /\ stdout = <<>> /\ stderr = NoMsg /\ exit_code = Unbound /\ verdict = "none"
    /\ list_queries = 0 /\ run_fetches = 0 /\ release_queries = 0
    /\ sleeps = 0 /\ git_calls = 0

\* ------------------------------------------------------------- actions
\* lines 122-124
CheckEvent ==
    /\ pc = "start"
    /\ IF NotApplicable(event_name, ref)
       THEN /\ stdout' = Append(stdout, "skipped (not a push to main/master)")
            /\ exit_code' = 0
            /\ verdict' = "skipped"
            /\ pc' = "done"
            /\ UNCHANGED stderr
       ELSE /\ pc' = "current_version"
            /\ UNCHANGED out_vars
    /\ UNCHANGED <<args, now, bump_vars, tag_vars, cfg_vars, disc_vars, run_vars,
                   rel_vars, api_counts, sleeps, git_calls>>

\* line 126: Cargo.toml of the working tree
ReadCurrentVersion ==
    /\ pc = "current_version"
    /\ \E content \in WorkingTreeManifests :
        LET v == workspace_version_from_toml(content) IN
        IF v = Raise
        THEN Crash /\ UNCHANGED <<stdout, current_version>>
        ELSE /\ current_version' = v
             /\ pc' = "before_version"
             /\ UNCHANGED out_vars
    /\ UNCHANGED <<args, now, before_version, expected_tag, tag_vars, cfg_vars,
                   disc_vars, run_vars, rel_vars, api_counts, sleeps, git_calls>>

\* lines 127-148: the previous version, the bump decision and its notice
ResolveBefore ==
    /\ pc = "before_version"
    /\ \E rc \in {0, 128}, content \in Manifests :
        LET read == BeforeGiven(before)
            bv == IF read THEN workspace_version_at_rev(rc, content) ELSE None
        IN
        /\ git_calls' = IF read THEN git_calls + 1 ELSE git_calls
        /\ IF bv = Raise
           THEN Crash /\ UNCHANGED <<stdout, before_version, expected_tag>>
           ELSE /\ before_version' = bv
                /\ IF VersionUnchanged(bv, current_version)
                   THEN /\ stdout' = Append(stdout, "workspace version unchanged")
                        /\ exit_code' = 0
                        /\ verdict' = "skipped"
                        /\ pc' = "done"
                        /\ UNCHANGED <<stderr, expected_tag>>
                   ELSE /\ expected_tag' = ExpectedTag(current_version)
                        /\ stdout' = Append(stdout,
                              IF PreviousKnown(bv)
                              THEN "detected workspace version bump"
                              ELSE "unable to resolve previous workspace version")
                        /\ pc' = "fetch_tags"
                        /\ UNCHANGED <<stderr, exit_code, verdict>>
    /\ UNCHANGED <<args, now, current_version, tag_vars, cfg_vars, disc_vars,
                   run_vars, rel_vars, api_counts, sleeps>>

\* line 150: git fetch --tags --force origin (run_git raises when it fails)
FetchTags ==
    /\ pc = "fetch_tags"
    /\ git_calls' = git_calls + 1
    /\ \E rc \in {0, 128} :
        IF rc # 0
        THEN Crash /\ UNCHANGED stdout
        ELSE pc' = "resolve_tag" /\ UNCHANGED out_vars
    /\ UNCHANGED <<args, now, bump_vars, tag_vars, cfg_vars, disc_vars, run_vars,
                   rel_vars, api_counts, sleeps>>

\* lines 152-158: git rev-parse refs/tags/<tag>^{}
ResolveTag ==
    /\ pc = "resolve_tag"
    /\ git_calls' = git_calls + 1
    /\ \E rc \in {0, 128}, commit \in Commits :
        /\ tag_commit_rc' = rc
        /\ IF TagMissing(rc)
           THEN /\ Fail(Msg("does not exist on origin", 0, 0, "", ""))
                /\ UNCHANGED <<stdout, tag_commit>>
           ELSE /\ tag_commit' = commit
                /\ pc' = "ancestor_check"
                /\ UNCHANGED out_vars
    /\ UNCHANGED <<args, now, bump_vars, ancestor_rc, cfg_vars, disc_vars, run_vars,
                   rel_vars, api_counts, sleeps>>

\* lines 160-168: git merge-base --is-ancestor <tag commit> <after>
CheckAncestor ==
    /\ pc = "ancestor_check"
    /\ git_calls' = git_calls + 1
    /\ ancestor_rc' = MergeBaseRc(tag_commit, AfterArg)
    /\ IF Unreachable(ancestor_rc')
       THEN Fail(Msg("which is not reachable from", 0, 0, "", "")) /\ UNCHANGED stdout
       ELSE pc' = "token" /\ UNCHANGED out_vars
    /\ UNCHANGED <<args, now, bump_vars, tag_commit_rc, tag_commit, cfg_vars,
                   disc_vars, run_vars, rel_vars, api_counts, sleeps>>

\* lines 170-179: credential, clamped tunables, discovery deadline
ReadToken ==
    /\ pc = "token"
    /\ \E github_token \in EnvValues, gh_token \in EnvValues :
        /\ token' = TokenFrom(github_token, gh_token)
        /\ IF token' = ""
           THEN /\ Fail(Msg("GITHUB_TOKEN is required", 0, 0, "", ""))
                /\ UNCHANGED <<stdout, poll_interval, run_discovery_timeout,
                               run_completion_timeout, discovery_deadline>>
           ELSE /\ poll_interval' = ClampInterval(poll_interval_seconds)
                /\ run_discovery_timeout' = ClampTimeout(run_discovery_timeout_seconds)
                /\ run_completion_timeout' = ClampTimeout(run_completion_timeout_seconds)
                /\ discovery_deadline' = now + run_discovery_timeout'
                /\ pc' = "discover"
                /\ UNCHANGED out_vars
    /\ UNCHANGED <<args, now, bump_vars, tag_vars, disc_vars, run_vars, rel_vars,
                   api_counts, sleeps, git_calls>>

\* the runs of one workflow_runs page: runs of the expected tag and of another ref
PageRuns(tag) ==
    {Run(tag, id, s[1], s[2]) : id \in RunIds, s \in RunStates}
        \cup {Run("v0.9", "r0", "completed", "success")}
Pages(tag) == UNION {[1..n -> PageRuns(tag)] : n \in 0..MaxRuns}

\* lines 181-202: a page as the listing returned it: the positions of the runs
\* of the tag, the least of them, and whether a run of the tag after the first
\* is completed with conclusion success
MatchIndexes(page, tag) == {i \in 1..Len(page) : page[i].head_branch = tag}
LeastMatch(page, tag) ==
    LET M == MatchIndexes(page, tag) IN CHOOSE i \in M : \A j \in M : i <= j
LaterSuccess(page, tag) ==
    LET M == MatchIndexes(page, tag) IN
    \E i \in M, j \in M :
        /\ i < j
        /\ page[j].status = "completed"
        /\ page[j].conclusion = "success"

\* lines 180-208: one round of the discovery loop: list, select, deadline, sleep
DiscoverRun ==
    /\ pc = "discover"
    /\ list_queries < QueryCap
    /\ list_queries' = list_queries + 1
    /\ \E latency \in 0..MaxDelay, status \in ApiResults :
        LET t == now + latency IN
        IF status = 0
        THEN /\ Crash
             /\ now' = t
             /\ UNCHANGED <<stdout, disc_vars, sleeps>>
        ELSE
        /\ runs_status' = status
        /\ IF NotOk(status)
           THEN /\ Fail(Msg("Could not query release workflow runs", status, 0, "", ""))
                /\ now' = t
                /\ UNCHANGED <<stdout, run_for_tag, found, first_listed, later_success,
                               sleeps>>
           ELSE \E page \in Pages(expected_tag) :   \* runs_payload["workflow_runs"]
                /\ run_for_tag' = FirstMatch(page, expected_tag)
                /\ IF run_for_tag' # NoRun
                   THEN /\ found' = run_for_tag'
                        /\ first_listed' = page[LeastMatch(page, expected_tag)]
                        /\ later_success' = LaterSuccess(page, expected_tag)
                        /\ pc' = "inspect_run"
                        /\ now' = t
                        /\ UNCHANGED <<out_vars, sleeps>>
                   ELSE IF DiscoveryExpired(t, discovery_deadline)
                   THEN /\ Fail(Msg("no Release workflow run was found for that tag within",
                                    0, run_discovery_timeout, "", ""))
                        /\ now' = t
                        /\ UNCHANGED <<stdout, found, first_listed, later_success, sleeps>>
                   ELSE /\ now' = t + poll_interval
                        /\ sleeps' = sleeps + 1
                        /\ pc' = "discover"
                        /\ UNCHANGED <<out_vars, found, first_listed, later_success>>
    /\ UNCHANGED <<args, bump_vars, tag_vars, cfg_vars, run_vars, rel_vars,
                   run_fetches, release_queries, git_calls>>

\* lines 210-220 without the run-id test of line 215
InspectRun_NoIdTest ==
    /\ pc = "inspect_run"
    /\ run_id' = run_for_tag.id
    /\ run_status' = run_for_tag.status
    /\ run_conclusion' = run_for_tag.conclusion
    /\ IF ~Completed(run_status')
       THEN /\ completion_deadline' = now + run_completion_timeout
            /\ pc' = "poll_run"
            /\ UNCHANGED out_vars
       ELSE /\ pc' = "conclusion"
            /\ UNCHANGED <<out_vars, completion_deadline>>
    /\ later_success' = FALSE
    /\ UNCHANGED <<args, now, bump_vars, tag_vars, cfg_vars, runs_status, run_for_tag,
                   found, first_listed,
                   run_status_code, fetched_at, rel_vars, api_counts, sleeps, git_calls>>

\* lines 210-220: the selected run; the completion deadline when it must be polled
InspectRun ==
    /\ pc = "inspect_run"
    /\ run_id' = run_for_tag.id
    /\ run_status' = run_for_tag.status
    /\ run_conclusion' = run_for_tag.conclusion
    /\ IF ~Completed(run_status')
       THEN IF run_id' = None
            THEN /\ Fail(Msg("has no run id and cannot be polled", 0, 0, "", ""))
                 /\ UNCHANGED <<stdout, completion_deadline>>
            ELSE /\ completion_deadline' = now + run_completion_timeout
                 /\ pc' = "poll_run"
                 /\ UNCHANGED out_vars
       ELSE /\ pc' = "conclusion"
            /\ UNCHANGED <<out_vars, completion_deadline>>
    /\ later_success' = FALSE
    /\ UNCHANGED <<args, now, bump_vars, tag_vars, cfg_vars, runs_status, run_for_tag,
                   found, first_listed,
                   run_status_code, fetched_at, rel_vars, api_counts, sleeps, git_calls>>

\* lines 221-238: one round of the completion loop: sleep, re-fetch the run
PollRun ==
    /\ pc = "poll_run"
    /\ CompletionPending(now, completion_deadline)
    /\ run_fetches < QueryCap
    /\ sleeps' = sleeps + 1
    /\ run_fetches' = run_fetches + 1
    /\ \E latency \in 0..MaxDelay, status \in ApiResults :
        /\ now' = now + poll_interval + latency
        /\ fetched_at' = now'
        /\ IF status = 0
           THEN /\ Crash
                /\ UNCHANGED <<stdout, run_for_tag, run_status, run_conclusion,
                               run_status_code>>
           ELSE
           /\ run_status_code' = status
           /\ IF NotOk(status)
              THEN /\ Fail(Msg("Could not query Release run status", status, 0, "", ""))
                   /\ UNCHANGED <<stdout, run_for_tag, run_status, run_conclusion>>
              ELSE \E s \in RunStates :
                   /\ run_for_tag' = Run(run_for_tag.head_branch, run_id, s[1], s[2])
                   /\ run_status' = s[1]
                   /\ run_conclusion' = s[2]
                   /\ pc' = IF Completed(run_status') THEN "conclusion" ELSE "poll_run"
                   /\ UNCHANGED out_vars
    /\ UNCHANGED <<args, bump_vars, tag_vars, cfg_vars, runs_status,
                   found, first_listed, later_success, run_id, completion_deadline,
                   rel_vars, list_queries,
                   release_queries, git_calls>>

\* lines 221, 239-243 reporting the status of the discovery listing
CompletionTimeout_Stale ==
    /\ pc = "poll_run"
    /\ ~CompletionPending(now, completion_deadline)
    /\ Fail(Msg("did not complete within", 0, run_completion_timeout, found.status, ""))
    /\ UNCHANGED <<stdout, args, now, bump_vars, tag_vars, cfg_vars, disc_vars, run_vars,
                   rel_vars, api_counts, sleeps, git_calls>>

\* lines 221, 239-243: the loop condition fails with the run not completed
CompletionTimeout ==
    /\ pc = "poll_run"
    /\ ~CompletionPending(now, completion_deadline)
    /\ IF ~Completed(run_status)
       THEN /\ Fail(Msg("did not complete within", 0, run_completion_timeout,
                        run_status, ""))
            /\ UNCHANGED stdout
       ELSE pc' = "conclusion" /\ UNCHANGED out_vars
    /\ UNCHANGED <<args, now, bump_vars, tag_vars, cfg_vars, disc_vars, run_vars,
                   rel_vars, api_counts, sleeps, git_calls>>

\* lines 245-249
CheckConclusion ==
    /\ pc = "conclusion"
    /\ IF ~Successful(run_conclusion)
       THEN /\ Fail(Msg("is not successful", 0, 0, run_status, run_conclusion))
            /\ UNCHANGED stdout
       ELSE pc' = "release" /\ UNCHANGED out_vars
    /\ UNCHANGED <<args, now, bump_vars, tag_vars, cfg_vars, disc_vars, run_vars,
                   rel_vars, api_counts, sleeps, git_calls>>

\* lines 72-82: the JSON body github_api_get returns with a status: a release
\* record or an empty body with a 2xx status, an error body (no draft, no
\* published_at) otherwise
Is2xx(status) == status \div 100 = 2
ResponseBodies(status) ==
    IF Is2xx(status)
    THEN {Release(d, p) : d \in Flags, p \in Timestamps} \cup {Release(None, None)}
    ELSE {Release(None, None)}

\* lines 251-272 with the release query repeated while the release is missing
\* or unpublished
QueryRelease_Polled ==
    /\ pc = "release"
    /\ release_queries < QueryCap
    /\ release_queries' = release_queries + 1
    /\ \E status \in ApiResults :
        /\ IF status = 0
           THEN Crash /\ UNCHANGED <<stdout, rel_vars>>
           ELSE
           /\ release_status' = status
           /\ \E body \in ResponseBodies(status) :
              /\ release_payload' = body
              /\ IF NotOk(status) \/ NotPublished(release_payload')
                 THEN UNCHANGED <<pc, out_vars>>
                 ELSE /\ stdout' = Append(stdout, "release evidence verified")
                      /\ exit_code' = 0
                      /\ verdict' = "passed"
                      /\ pc' = "done"
                      /\ UNCHANGED stderr
    /\ UNCHANGED <<args, now, bump_vars, tag_vars, cfg_vars, disc_vars, run_vars,
                   list_queries, run_fetches, sleeps, git_calls>>

\* lines 251-272: the release of the tag, queried once; the verdict
\* (main() does not read the clock after line 221, so now stays as last read)
QueryRelease ==
    /\ pc = "release"
    /\ release_queries' = release_queries + 1
    /\ \E status \in ApiResults :
        /\ IF status = 0
           THEN Crash /\ UNCHANGED <<stdout, rel_vars>>
           ELSE
           /\ release_status' = status
           /\ \E body \in ResponseBodies(status) :
              /\ release_payload' = body
              /\ IF NotOk(status)
                 THEN /\ Fail(Msg("not found", status, 0, "", ""))
                      /\ UNCHANGED stdout
                 ELSE IF NotPublished(release_payload')
                 THEN /\ Fail(Msg("exists but is not published yet", 0, 0, "", ""))
                      /\ UNCHANGED stdout
                 ELSE /\ stdout' = Append(stdout, "release evidence verified")
                      /\ exit_code' = 0
                      /\ verdict' = "passed"
                      /\ pc' = "done"
                      /\ UNCHANGED stderr
    /\ UNCHANGED <<args, now, bump_vars, tag_vars, cfg_vars, disc_vars, run_vars,
                   list_queries, run_fetches, sleeps, git_calls>>

Next ==
    \/ CheckEvent
    \/ ReadCurrentVersion
    \/ ResolveBefore
    \/ FetchTags
    \/ ResolveTag
    \/ CheckAncestor
    \/ ReadToken
    \/ DiscoverRun
    \/ InspectRun
    \/ PollRun
    \/ CompletionTimeout
    \/ CheckConclusion
    \/ QueryRelease

Spec == Init /\ [][Next]_vars

\* ------------------------------------------------------------ properties
ApiCalls == list_queries + run_fetches + release_queries
CeilDiv(a, b) == (a + b - 1) \div b
Published == /\ release_status = 200
             /\ release_payload.draft = "false"
             /\ release_payload.published_at # None

\* the request caps of DiscoverRun and PollRun never stop a loop of main()
CountersInRange == list_queries < QueryCap /\ run_fetches < QueryCap

\* C1: an invocation that ends passed has, in that invocation, resolved tag
\* v<current version> to a commit that is the after commit or an ancestor of
\* it, seen a run of that tag completed with conclusion success, and got the
\* release of the tag with status 200, draft false and a published_at.
C1_PassedHasAllEvidence ==
    verdict = "passed" =>
        /\ exit_code = 0
        /\ expected_tag = "v" \o current_version
        /\ tag_commit_rc = 0
        /\ tag_commit \in Commits
        /\ IsAncestor(tag_commit, AfterArg)
        /\ found.head_branch = expected_tag
        /\ run_for_tag.head_branch = expected_tag
        /\ run_status = "completed"
        /\ run_conclusion = "success"
        /\ release_queries = 1
        /\ Published

C1_Witness ==
    /\ verdict = "passed"
    /\ tag_commit = "c1"
    /\ found.status = "in_progress"
    /\ run_fetches = 2

\* C2: when the event is not push, or the ref is neither refs/heads/main nor
\* refs/heads/master, the invocation ends skipped with exit status 0 at its
\* first step and never sends an evidence-API request.
C2_NotApplicableSkips ==
    (event_name # "push" \/ ref \notin {"refs/heads/main", "refs/heads/master"}) =>
        /\ pc \in {"start", "done"}
        /\ ApiCalls = 0
        /\ git_calls = 0
        /\ token = Unset
        /\ pc = "done" => (verdict = "skipped" /\ exit_code = 0)

C2_Witness ==
    /\ pc = "done"
    /\ verdict = "skipped"
    /\ event_name = "push"
    /\ ref = "refs/heads/dev"

\* C3: when the version resolved at the before revision equals the current
\* version, the invocation ends skipped (exit status 0); the tag, the workflow
\* runs and the release are never looked at.
C3_UnchangedVersionSkips ==
    (before_version \in Versions /\ before_version = current_version) =>
        /\ pc = "done"
        /\ verdict = "skipped"
        /\ exit_code = 0
        /\ tag_commit_rc = Unbound
        /\ ApiCalls = 0

C3_Witness ==
    /\ verdict = "skipped"
    /\ before = "c1"
    /\ before_version = "1.1"
    /\ current_version = "1.1"

\* C4: on a push to main/master whose previous version is unknown or differs
\* from the current one, when rev-parse cannot resolve tag v<version> after the
\* forced fetch, the invocation ends failed with the "does not exist" reason
\* and has sent no evidence-API request.
C4_MissingTagFails ==
    (/\ event_name = "push"
     /\ ref \in {"refs/heads/main", "refs/heads/master"}
     /\ before_version \in (Versions \cup {None}) \ {current_version}
     /\ tag_commit_rc \notin {Unbound, 0}) =>
        /\ pc = "done"
        /\ verdict = "failed"
        /\ exit_code = 1
        /\ stderr.text = "does not exist on origin"
        /\ ApiCalls = 0

C4_Witness ==
    /\ verdict = "failed"
    /\ before_version = "1.0"
    /\ current_version = "1.1"
    /\ expected_tag = "v1.1"
    /\ tag_commit_rc = 128

\* C5: when the tag resolves to a commit that is neither the after commit nor
\* one of its ancestors, the invocation ends failed with the "not reachable"
\* reason at the ancestry check: no credential is read and no evidence-API
\* request is sent, so no run or release state can change the outcome.
C5_UnreachableTagFails ==
    (/\ tag_commit_rc = 0
     /\ ~IsAncestor(tag_commit, AfterArg)
     /\ pc # "ancestor_check") =>
        /\ pc = "done"
        /\ verdict = "failed"
        /\ exit_code = 1
        /\ stderr.text = "which is not reachable from"
        /\ token = Unset
        /\ ApiCalls = 0

C5_Witness ==
    /\ verdict = "failed"
    /\ tag_commit = "cx"
    /\ ancestor_rc = 1

\* C6: with P the clamped poll interval and D the clamped discovery timeout,
\* the discovery loop sends at most ceil(D / P) + 1 workflow-run listings
\* (every sleep lasting at least P); before the loop none is sent.
C6_DiscoveryAttemptsBounded ==
    IF poll_interval = Unbound
    THEN list_queries = 0
    ELSE /\ poll_interval >= 1
         /\ run_discovery_timeout >= 0
         /\ list_queries <= CeilDiv(run_discovery_timeout, poll_interval) + 1

C6_Witness ==
    /\ poll_interval = 2
    /\ run_discovery_timeout = 3
    /\ list_queries = CeilDiv(run_discovery_timeout, poll_interval) + 1
    /\ sleeps = 2

\* every workflow-run listing so far returned 200 without a run of the tag
NoMatchListed ==
    /\ list_queries >= 1
    /\ runs_status = 200
    /\ run_for_tag = NoRun
    /\ stderr # Traceback

\* C7: when every workflow-run listing returns 200 and none holds a run of the
\* expected tag, the discovery loop ends and the invocation ends failed with
\* "no Release workflow run was found for that tag within <D>s".  The loop
\* cannot run forever: a round is followed by another only when the clock it
\* read is below the deadline, every round advances the clock, and the loop is
\* never stuck.
C7_DiscoveryTimesOut ==
    /\ [](pc = "done" /\ NoMatchListed =>
            /\ verdict = "failed"
            /\ exit_code = 1
            /\ stderr = Msg("no Release workflow run was found for that tag within",
                            0, run_discovery_timeout, "", "")
            /\ now >= discovery_deadline
            /\ run_fetches = 0
            /\ release_queries = 0)
    /\ [](pc = "discover" => ENABLED Next)
    /\ [][pc = "discover" /\ pc' = "discover" =>
            now < discovery_deadline /\ now' > now]_vars

C7_Witness ==
    /\ pc = "done"
    /\ NoMatchListed
    /\ verdict = "failed"
    /\ list_queries = 3
    /\ run_discovery_timeout = 2

\* C8: when discovery selects a run of the tag that is already completed with
\* conclusion success, the release is queried (once), and when that query
\* returns 200 with draft false and a published_at the invocation ends passed.
C8_CompletedRunAndReleasePass ==
    (found.status = "completed" /\ found.conclusion = "success") =>
        /\ pc \in {"inspect_run", "conclusion", "release", "done"}
        /\ pc = "done" =>
            /\ release_queries = 1
            /\ Published => (verdict = "passed" /\ exit_code = 0)

C8_Witness ==
    /\ found.status = "completed"
    /\ found.conclusion = "success"
    /\ Published
    /\ verdict = "passed"
    /\ run_fetches = 0

\* C9: when discovery selects an in_progress run and a re-fetch returning
\* before the completion deadline shows it completed with conclusion success,
\* polling stops, the release is queried (once), and when that query returns
\* a published release the invocation ends passed.
C9_RunCompletingInTimePasses ==
    (/\ found.status = "in_progress"
     /\ run_fetches >= 1
     /\ run_status_code = 200
     /\ run_status = "completed"
     /\ run_conclusion = "success"
     /\ fetched_at < completion_deadline) =>
        /\ pc \in {"conclusion", "release", "done"}
        /\ pc = "done" /\ stderr # Traceback =>
            /\ release_queries = 1
            /\ Published => (verdict = "passed" /\ exit_code = 0)

C9_Witness ==
    /\ found.status = "in_progress"
    /\ run_fetches = 2
    /\ run_status = "completed"
    /\ run_conclusion = "success"
    /\ fetched_at < completion_deadline
    /\ Published
    /\ verdict = "passed"

\* the selected run was not completed and every re-fetch of it so far returned
\* 200 with a status other than completed
StillPending ==
    /\ found # NoRun
    /\ found.status # "completed"
    /\ stderr # Traceback
    /\ run_fetches = 0 \/ (run_status_code = 200 /\ run_status # "completed")

\* C10 as stated: a selected run that is not completed and whose re-fetches all
\* return 200 with a status other than completed ends failed with the "did not
\* complete within <C>s" reason, the release never queried.
C10_Original ==
    (pc = "done" /\ StillPending) =>
        /\ verdict = "failed"
        /\ stderr.text = "did not complete within"
        /\ release_queries = 0

\* C10 amended: a selected run that is not completed, that carries a run id, and
\* whose re-fetches all return 200 with a status other than completed ends failed
\* with "did not complete within <C>s (latest status=<the status last seen>)",
\* the release never queried.  The completion loop cannot run forever: a round
\* starts only below the deadline, every round advances the clock, and the loop
\* is never stuck.
C10_PendingRunTimesOut ==
    /\ [](pc = "done" /\ StillPending /\ found.id # None =>
            /\ verdict = "failed"
            /\ exit_code = 1
            /\ stderr = Msg("did not complete within", 0, run_completion_timeout,
                            run_status, "")
            /\ run_fetches = 0 => run_status = found.status
            /\ now >= completion_deadline
            /\ release_queries = 0)
    /\ [](pc = "poll_run" => ENABLED Next)
    /\ [][pc = "poll_run" /\ pc' = "poll_run" =>
            now < completion_deadline /\ now' > now]_vars

C10_Witness ==
    /\ pc = "done"
    /\ StillPending
    /\ found.id # None
    /\ found.status = "queued"
    /\ run_status = "in_progress"
    /\ run_fetches = 2
    /\ verdict = "failed"

\* C11: whenever the run of the expected tag is observed completed with a
\* conclusion other than success (failure, or no conclusion at all), whether
\* discovery listed it so or a re-fetch showed it, the invocation ends failed
\* with "is not successful" naming the status and conclusion seen, and the
\* release is never queried: the state of the release does not matter.
C11_UnsuccessfulRunFails ==
    (run_status = "completed" /\ run_conclusion # "success") =>
        /\ pc \in {"conclusion", "done"}
        /\ release_queries = 0
        /\ release_status = Unbound
        /\ pc = "done" =>
            /\ verdict = "failed"
            /\ exit_code = 1
            /\ stderr = Msg("is not successful", 0, 0, run_status, run_conclusion)

C11_Witness ==
    /\ pc = "done"
    /\ found.status = "in_progress"
    /\ run_fetches >= 1
    /\ run_status = "completed"
    /\ run_conclusion = None
    /\ verdict = "failed"
    /\ stderr.text = "is not successful"

\* C12: when neither credential variable holds a token the invocation ends in a
\* configuration error that its exit code or its error category tells apart
\* from a failed verdict resting on evidence (exit code 1, category "failed").
C12_MissingCredentialDistinct ==
    (pc = "done" /\ token = "") =>
        exit_code # 1 \/ verdict # "failed"

\* C13: a failure to resolve the version at the before revision is never fatal:
\* whatever goes wrong there (the revision or its manifest missing, the manifest
\* unparsable or without a version field), the previous version is settled as
\* unknown (None) and the invocation goes on to the tag verification, so no
\* invocation that read its current version ends with the previous version
\* still unsettled.
C13_BeforeFailureNeverFatal ==
    (pc = "done" /\ current_version \in Versions) => before_version # Unset

\* C14 as stated: the release stage passes only on a 2xx record that is not a
\* draft and has a publication timestamp; a non-2xx response ends failed with
\* "not found"; a 2xx record that is a draft or has no publication timestamp
\* ends failed with "exists but is not published yet".
C14_Original ==
    release_status # Unbound =>
        /\ verdict = "passed" =>
            /\ Is2xx(release_status)
            /\ ~NotPublished(release_payload)
        /\ ~Is2xx(release_status) =>
            /\ verdict = "failed"
            /\ stderr.text = "not found"
        /\ Is2xx(release_status) /\ NotPublished(release_payload) =>
            /\ verdict = "failed"
            /\ stderr.text = "exists but is not published yet"

\* C14 amended: the release stage passes only when the release query returns
\* status 200 with a record that is not a draft and has a publication timestamp;
\* any other status (another 2xx included) ends failed with "not found (status
\* <code>)"; a 200 record that is a draft, or whose published_at is null or
\* absent, ends failed with "exists but is not published yet".
C14_ReleaseStageVerdicts ==
    release_status # Unbound =>
        /\ pc = "done"
        /\ IF release_status # 200
           THEN /\ verdict = "failed"
                /\ exit_code = 1
                /\ stderr = Msg("not found", release_status, 0, "", "")
           ELSE IF release_payload.draft = "true" \/ release_payload.published_at = None
           THEN /\ verdict = "failed"
                /\ exit_code = 1
                /\ stderr = Msg("exists but is not published yet", 0, 0, "", "")
           ELSE /\ verdict = "passed"
                /\ exit_code = 0

C14_Witness ==
    /\ release_queries = 1
    /\ release_status = 200
    /\ release_payload.draft = "false"
    /\ release_payload.published_at = None
    /\ verdict = "failed"
    /\ stderr.text = "exists but is not published yet"

\* C15: a response with any status but 200 (every non-2xx status among them) to
\* the run listing or to a re-fetch of the run ends the invocation at once,
\* failed with the "could not query" reason of that stage: no query of any kind
\* follows it.  A polling loop goes round again only after a 200 listing with
\* no run of the expected tag, or after a 200 re-fetch of a run not yet
\* completed.
C15_ApiErrorEndsPolling ==
    /\ [](runs_status \notin {Unbound, 200} =>
            /\ pc = "done"
            /\ verdict = "failed"
            /\ exit_code = 1
            /\ stderr = Msg("Could not query release workflow runs", runs_status, 0, "", "")
            /\ run_fetches = 0
            /\ release_queries = 0)
    /\ [](run_status_code \notin {Unbound, 200} =>
            /\ pc = "done"
            /\ verdict = "failed"
            /\ exit_code = 1
            /\ stderr = Msg("Could not query Release run status", run_status_code, 0, "", "")
            /\ release_queries = 0)
    /\ [][pc = "done" => ApiCalls' = ApiCalls]_vars
    /\ [][pc = "discover" /\ pc' = "discover" =>
            /\ runs_status' = 200
            /\ run_for_tag' = NoRun
            /\ list_queries' = list_queries + 1]_vars
    /\ [][pc = "poll_run" /\ pc' = "poll_run" =>
            /\ run_status_code' = 200
            /\ run_status' # "completed"
            /\ run_fetches' = run_fetches + 1]_vars

C15_Witness ==
    /\ pc = "done"
    /\ list_queries = 2
    /\ run_fetches = 2
    /\ run_status_code = 404
    /\ run_status = "in_progress"
    /\ verdict = "failed"
    /\ stderr.text = "Could not query Release run status"

\* C17: the release record is queried at most once per invocation, and exactly
\* once in every invocation that reaches the release stage: the stage is reached
\* only with a run completed successfully and no release query made, its one
\* step makes the query and ends the invocation whatever the answer (missing,
\* draft or unpublished included), and an invocation that ends before the stage
\* never queries the release.
C17_ReleaseQueriedOnce ==
    /\ [](release_queries \in {0, 1})
    /\ [](pc = "release" =>
            /\ release_queries = 0
            /\ Completed(run_status) /\ Successful(run_conclusion)
            /\ ENABLED QueryRelease)
    /\ [][pc = "release" => release_queries' = 1 /\ pc' = "done"]_vars
    /\ [](release_queries = 1 => pc = "done")
    /\ [](pc = "done" =>
            (release_queries = 1 <=>
                run_status = "completed" /\ run_conclusion = "success"))

C17_Witness ==
    /\ pc = "done"
    /\ release_queries = 1
    /\ release_status = 200
    /\ release_payload.draft = "true"
    /\ verdict = "failed"
    /\ ApiCalls = list_queries + run_fetches + 1

\* C18: the completion poller accepts a completed status only when it was
\* observed before the completion deadline: no invocation ends passed on a
\* completed status that a re-fetch first showed at or after the deadline.
C18_CompletedOnlyBeforeDeadline ==
    (run_fetches >= 1 /\ run_status = "completed" /\ fetched_at >= completion_deadline) =>
        verdict # "passed"

\* C19: the stages run in the fixed order bump check, tag verification, run
\* discovery, run completion, release verification, and the first failure is
\* terminal.  The tag is looked up only after the bump check found a push to a
\* protected branch with a version not known to be unchanged; the run listing is
\* queried only after the tag was found reachable (and a token read); the run
\* is re-fetched only after discovery selected a run; the release is queried
\* only after the run was seen completed with conclusion success.  A verdict
\* exists exactly when the invocation has ended: after it no step is possible,
\* so no git or API query follows and the verdict is never revised.
C19_StagesInOrder ==
    /\ [](tag_commit_rc # Unbound =>
            /\ ~NotApplicable(event_name, ref)
            /\ current_version \in Versions
            /\ before_version # Unset
            /\ ~VersionUnchanged(before_version, current_version)
            /\ expected_tag = ExpectedTag(current_version))
    /\ [](list_queries > 0 =>
            /\ ~TagMissing(tag_commit_rc)
            /\ ~Unreachable(ancestor_rc)
            /\ token \notin {Unset, ""})
    /\ [](run_fetches > 0 =>
            /\ list_queries > 0
            /\ runs_status = 200
            /\ found # NoRun
            /\ found.head_branch = expected_tag)
    /\ [](release_queries > 0 =>
            /\ Completed(run_status)
            /\ Successful(run_conclusion))
    /\ [](verdict # "none" <=> pc = "done")
    /\ [](pc = "done" => ~ENABLED Next)
    /\ [][verdict # "none" =>
            /\ verdict' = verdict
            /\ exit_code' = exit_code
            /\ ApiCalls' = ApiCalls
            /\ git_calls' = git_calls]_vars

C19_Witness ==
    /\ pc = "done"
    /\ verdict = "failed"
    /\ stderr.text = "is not successful"
    /\ git_calls = 4
    /\ list_queries = 2
    /\ run_fetches = 1
    /\ release_queries = 0

\* C20: on a push to a protected branch whose before identifier is empty or
\* all-zero, the before revision is never read from the repository (the first
\* git command of the invocation is the tag fetch), the previous version is
\* unknown (None), the invocation is never skipped as "workspace version
\* unchanged", and once the current version is read it announces "unable to
\* resolve previous workspace version" and goes on to the tag verification for
\* v<current version>.
C20_NoBeforeRevisionNeverSkips ==
    (/\ ~NotApplicable(event_name, ref)
     /\ before \in {"", NULL_SHA}) =>
        /\ before_version \in {Unset, None}
        /\ verdict # "skipped"
        /\ pc \in {"start", "current_version", "before_version", "fetch_tags"} =>
            git_calls = 0
        /\ git_calls <= 3
        /\ current_version \in Versions /\ pc # "before_version" =>
            /\ before_version = None
            /\ expected_tag = ExpectedTag(current_version)
            /\ stdout # <<>>
            /\ stdout[1] = "unable to resolve previous workspace version"
            /\ pc = "fetch_tags" \/ git_calls >= 1

C20_Witness ==
    /\ before = NULL_SHA
    /\ before_version = None
    /\ current_version = "1.1"
    /\ expected_tag = "v1.1"
    /\ tag_commit_rc = 0
    /\ git_calls = 2

\* C21: when the run selected by discovery already has status completed, the
\* completion loop is skipped: no completion deadline is set, the run is never
\* re-fetched, the only sleeps of the invocation are those between discovery
\* listings, and the status and conclusion judged are those of the listing.
C21_CompletedRunSkipsPolling ==
    (found # NoRun /\ found.status = "completed") =>
        /\ pc \in {"inspect_run", "conclusion", "release", "done"}
        /\ run_fetches = 0
        /\ run_status_code = Unbound
        /\ fetched_at = Unbound
        /\ completion_deadline = Unbound
        /\ sleeps = list_queries - 1
        /\ run_for_tag = found
        /\ run_status # Unset =>
            /\ run_status = found.status
            /\ run_conclusion = found.conclusion
        /\ stderr.text = "is not successful" =>
            stderr = Msg("is not successful", 0, 0, found.status, found.conclusion)
        /\ found.conclusion = "success" /\ pc = "done" => release_queries = 1

C21_Witness ==
    /\ pc = "done"
    /\ list_queries = 2
    /\ sleeps = 1
    /\ found.status = "completed"
    /\ found.conclusion = "success"
    /\ run_fetches = 0
    /\ verdict = "passed"

\* C22: when a listing holds several runs whose head_branch is the expected
\* tag, the run selected is the one of least index in the page, whatever the
\* later matching runs are (a later run completed with success included), and
\* the run id, status and conclusion taken into the completion and outcome
\* stages are those of that run.
C22_FirstListedRunIsUsed ==
    /\ found = first_listed
    /\ found # NoRun => found.head_branch = expected_tag
    /\ later_success => pc = "inspect_run" /\ run_for_tag = first_listed
    /\ run_id # Unset => run_id = first_listed.id
    /\ (run_status # Unset /\ run_fetches = 0) =>
            /\ run_status = first_listed.status
            /\ run_conclusion = first_listed.conclusion

C22_Witness ==
    /\ pc = "inspect_run"
    /\ later_success
    /\ found.status = "completed"
    /\ found.conclusion = "failure"
    /\ run_for_tag = found

\* C23: for every configured poll interval, zero and negative ones included,
\* the interval used is max(value, 1); a discovery listing is followed by
\* another only after a sleep of that interval, and every re-fetch of the run
\* is preceded by a sleep of that interval, so between two consecutive polling
\* queries the clock advances by at least one time unit.
C23_PollsAreSpacedOut ==
    /\ [](poll_interval # Unbound =>
            /\ poll_interval >= 1
            /\ poll_interval = Max(poll_interval_seconds, 1))
    /\ [][pc = "discover" /\ pc' = "discover" =>
            /\ sleeps' = sleeps + 1
            /\ now' >= now + poll_interval
            /\ now' >= now + 1]_vars
    /\ [][run_fetches' # run_fetches =>
            /\ run_fetches' = run_fetches + 1
            /\ sleeps' = sleeps + 1
            /\ now' >= now + poll_interval
            /\ now' >= now + 1]_vars
    /\ [](list_queries >= 1 =>
            /\ sleeps >= list_queries - 1 + run_fetches
            /\ now >= sleeps)

C23_Witness ==
    /\ poll_interval_seconds = 0
    /\ poll_interval = 1
    /\ list_queries = 2
    /\ run_fetches = 2
    /\ sleeps = 3
    /\ now >= 3

\* C24 as stated: with P the clamped poll interval and C the clamped completion
\* timeout, the run is re-fetched at most ceil(C / P) times, each re-fetch
\* preceded by a sleep; with C = 0 a selected run that is not completed is never
\* re-fetched and the invocation ends failed with the "did not complete within"
\* reason carrying the status of the discovery listing.
C24_Original ==
    /\ run_fetches > 0 =>
        /\ run_fetches <= CeilDiv(run_completion_timeout, poll_interval)
        /\ sleeps = list_queries - 1 + run_fetches
    /\ (/\ pc = "done"
        /\ run_completion_timeout = 0
        /\ found # NoRun
        /\ found.status # "completed") =>
            /\ run_fetches = 0
            /\ verdict = "failed"
            /\ stderr = Msg("did not complete within", 0, 0, found.status, "")

\* C24 amended: with P the clamped poll interval and C the clamped completion
\* timeout, the run is re-fetched at most ceil(C / P) times, each re-fetch
\* preceded by a sleep; with C = 0 a selected run that is not completed is never
\* re-fetched, and the invocation ends failed: with the "did not complete
\* within 0s" reason carrying the status of the discovery listing when the run
\* carries a run id, with "has no run id and cannot be polled" when it does not.
C24_RefetchesBounded ==
    /\ run_completion_timeout # Unbound => run_completion_timeout >= 0
    /\ run_fetches > 0 =>
        /\ poll_interval >= 1
        /\ run_fetches <= CeilDiv(run_completion_timeout, poll_interval)
        /\ sleeps = list_queries - 1 + run_fetches
    /\ (/\ pc = "done"
        /\ run_completion_timeout = 0
        /\ found # NoRun
        /\ found.status # "completed") =>
            /\ run_fetches = 0
            /\ sleeps = list_queries - 1
            /\ release_queries = 0
            /\ verdict = "failed"
            /\ exit_code = 1
            /\ stderr = IF found.id # None
                        THEN Msg("did not complete within", 0, 0, found.status, "")
                        ELSE Msg("has no run id and cannot be polled", 0, 0, "", "")

C24_Witness ==
    /\ pc = "done"
    /\ run_completion_timeout_seconds = -1
    /\ run_completion_timeout = 0
    /\ found.status = "in_progress"
    /\ found.id # None
    /\ run_fetches = 0
    /\ stderr = Msg("did not complete within", 0, 0, "in_progress", "")

\* C25: the credential is read only after the tag was found and found
\* reachable.  With no credential no API request is ever made, and the
\* "GITHUB_TOKEN is required" failure is reported only for a tag that exists
\* and is reachable; a missing or unreachable tag ends the invocation with its
\* own reason before the environment is looked at, so whatever the credential.
C25_CredentialAfterTagStage ==
    /\ token # Unset =>
        /\ tag_commit_rc = 0
        /\ ancestor_rc = 0
    /\ token \in {Unset, ""} => ApiCalls = 0
    /\ token = "" =>
        /\ pc = "done"
        /\ verdict = "failed"
        /\ stderr = Msg("GITHUB_TOKEN is required", 0, 0, "", "")
    /\ stderr.text = "GITHUB_TOKEN is required" => token = ""
    /\ tag_commit_rc \notin {Unbound, 0} =>
        /\ pc = "done"
        /\ token = Unset
        /\ verdict = "failed"
        /\ stderr = Msg("does not exist on origin", 0, 0, "", "")
    /\ ancestor_rc \notin {Unbound, 0} =>
        /\ pc = "done"
        /\ token = Unset
        /\ verdict = "failed"
        /\ stderr = Msg("which is not reachable from", 0, 0, "", "")

C25_Witness ==
    /\ pc = "done"
    /\ tag_commit_rc = 0
    /\ ancestor_rc = 0
    /\ token = ""
    /\ git_calls = 3
    /\ ApiCalls = 0
    /\ stderr.text = "GITHUB_TOKEN is required"

\* C26: on a push to a protected branch whose version at the before revision
\* equals the current one, the invocation ends skipped with exit code 0 before
\* any effect of the later stages: the one git command run is the read of the
\* before manifest, there is no tag fetch, no tag resolution, no ancestry check,
\* no credential lookup, no API request and no sleep, and nothing is written to
\* stderr.  Credential and tag are never looked at, so their absence does not
\* matter.
C26_SkipHasNoLaterEffects ==
    /\ (before_version # Unset /\ before_version = current_version) =>
        /\ pc = "done"
        /\ verdict = "skipped"
        /\ exit_code = 0
        /\ stdout = <<"workspace version unchanged">>
        /\ stderr = NoMsg
        /\ git_calls = 1
        /\ expected_tag = Unset
        /\ tag_commit_rc = Unbound /\ tag_commit = Unset /\ ancestor_rc = Unbound
        /\ token = Unset
        /\ poll_interval = Unbound
        /\ ApiCalls = 0
        /\ sleeps = 0
        /\ now = 0
    /\ (verdict = "skipped" /\ ~NotApplicable(event_name, ref)) =>
        before_version = current_version

C26_Witness ==
    /\ event_name = "push"
    /\ ref = "refs/heads/master"
    /\ before = "c1"
    /\ current_version = "1.1"
    /\ before_version = "1.1"
    /\ verdict = "skipped"
    /\ exit_code = 0
    /\ git_calls = 1

\* C27: when the run selected by discovery is not completed and carries no run
\* id, the invocation ends at once, failed with "has no run id and cannot be
\* polled": no completion deadline is set, no sleep follows the listing that
\* found the run, the run is never re-fetched and the release never queried.
C27_RunWithoutIdFailsAtOnce ==
    (found # NoRun /\ found.status # "completed" /\ found.id = None) =>
        /\ pc \in {"inspect_run", "done"}
        /\ completion_deadline = Unbound
        /\ run_fetches = 0
        /\ fetched_at = Unbound
        /\ release_queries = 0
        /\ sleeps = list_queries - 1
        /\ pc = "done" =>
            /\ verdict = "failed"
            /\ exit_code = 1
            /\ stderr = Msg("has no run id and cannot be polled", 0, 0, "", "")
            /\ run_status = found.status

C27_Witness ==
    /\ pc = "done"
    /\ found.status = "queued"
    /\ found.id = None
    /\ list_queries = 2
    /\ sleeps = 1
    /\ run_fetches = 0
    /\ stderr.text = "has no run id and cannot be polled"

====
